---- MODULE Spec2Model ----
(***************************************************************************)
(* Model of the resume-bot-deploy orchestration scripts: deploy.sh,        *)
(* destroy.sh and scripts/bootstrap-regions.sh, together with the parts of *)
(* the CDK app (bin/resume-bot-deploy.ts and the stack constructors) that  *)
(* decide what a `cdk deploy` of a stack receives.                         *)
(*                                                                         *)
(* Text values that the code slices (the image reference) are sequences of *)
(* tokens; ":" and "/" are tokens of their own.                            *)
(***************************************************************************)
EXTENDS Integers, Sequences, FiniteSets, TLC

\* ---------------------------------------------------------------- bounds
MaxImages == 2      \* images in the registry
MaxRuns   == 2      \* script invocations in one behaviour

\* ------------------------------------------------------------- constants
Stacks   == {"Certificate", "Backend", "Frontend"}
Regions  == {"us-east-1", "ca-central-1"}
Tags     == {"latest", "None", "v3"}
Arns     == {"arn:cert1"}
\* values of DOMAIN_NAME, <<>> when it is not set
Domains  == {<<>>, <<"example", ".", "com">>}
Account  == "123456789012"
Scripts  == {"deploy", "destroy", "bootstrap"}

\* ------------------------------------------------------------- sequences
RECURSIVE SeqsUpTo(_, _)
SeqsUpTo(S, n) ==
  IF n = 0 THEN {<<>>}
  ELSE LET shorter == SeqsUpTo(S, n - 1)
       IN  shorter \cup {Append(q, x) : q \in shorter, x \in S}

Range(q) == {q[i] : i \in DOMAIN q}

NoDup(q) == \A i, j \in DOMAIN q : i # j => q[i] # q[j]

\* the tags of one image, in the order describe-images lists them
TagLists == {q \in SeqsUpTo(Tags, Cardinality(Tags)) : NoDup(q)}

Image(t, tags) == [imagePushedAt |-> t, imageTags |-> tags]

\* a tag names one image of a repository
UniqueTags(reg) ==
  \A i, j \in DOMAIN reg :
    i # j => Range(reg[i].imageTags) \cap Range(reg[j].imageTags) = {}

\* describe-images lists the images in no particular order; the push
\* timestamps of n images are 1..n in some order
Orders(n) == {p \in [1..n -> 1..n] : \A i, j \in 1..n : i # j => p[i] # p[j]}

RegistriesOf(n) ==
  {reg \in {[i \in 1..n |-> Image(p[i], tl[i])] :
             p \in Orders(n), tl \in [1..n -> TagLists]} : UniqueTags(reg)}

Registries == UNION {RegistriesOf(n) : n \in 0..MaxImages}

\* ------------------------------------------------- artifact resolution
\* sort_by(imageDetails, &imagePushedAt): a stable ascending sort
RECURSIVE InsertSorted(_, _)
InsertSorted(sorted, img) ==
  IF sorted = <<>> THEN <<img>>
  ELSE IF sorted[Len(sorted)].imagePushedAt <= img.imagePushedAt
       THEN Append(sorted, img)
       ELSE Append(InsertSorted(SubSeq(sorted, 1, Len(sorted) - 1), img),
                   sorted[Len(sorted)])

RECURSIVE SortByPushedAt(_)
SortByPushedAt(reg) ==
  IF reg = <<>> THEN <<>>
  ELSE InsertSorted(SortByPushedAt(SubSeq(reg, 1, Len(reg) - 1)), reg[Len(reg)])

\* the words of `aws ecr describe-images --query '...[-1].imageTags'
\* --output text`: a null result (no image, or an untagged image) is the
\* single word None
DescribeImagesText(reg) ==
  LET sorted == SortByPushedAt(reg)
  IN  IF sorted = <<>> THEN <<"None">>
      ELSE IF sorted[Len(sorted)].imageTags = <<>> THEN <<"None">>
      ELSE sorted[Len(sorted)].imageTags

\* mutant: the loop takes the first word without the "latest" test
FirstWord(words) == IF words = <<>> THEN "" ELSE words[1]

\* for tag in $ALL_TAGS: the first word that is not "latest", "" if none
RECURSIVE FirstNonLatest(_)
FirstNonLatest(words) ==
  IF words = <<>> THEN ""
  ELSE IF words[1] # "latest" THEN words[1]
  ELSE FirstNonLatest(Tail(words))

\* the one error the resolution step prints
NoImagesFound == "No images found in ECR repository"

\* [ "$LATEST_TAG" != "None" ] && [ ! -z "$LATEST_TAG" ]
TagUsable(tag) == tag # "None" /\ tag # ""

\* a word as the pieces its ':' and '/' characters cut it into
Split(word) ==
  CASE word = "v1:x" -> <<"v1", ":", "x">>
    [] word = "a/b"  -> <<"a", "/", "b">>
    [] word = ""     -> <<>>
    [] OTHER         -> <<word>>

\* ECR_IMAGE_URI="${CDK_ACCOUNT}.dkr.ecr.${CDK_REGION}.amazonaws.com/resume-bot/backend-lambda:${LATEST_TAG}"
EcrImageUri(account, region, tag) ==
  <<account, ".dkr.ecr.", region, ".amazonaws.com", "/", "resume-bot", "/",
    "backend-lambda", ":">> \o Split(tag)

\* ------------------------------------------- image reference, CDK side
RECURSIVE LastIndexOf(_, _)
LastIndexOf(s, c) ==
  IF s = <<>> THEN 0
  ELSE IF s[Len(s)] = c THEN Len(s)
  ELSE LastIndexOf(SubSeq(s, 1, Len(s) - 1), c)

\* ecrImageUri.substring(lastColonIndex + 1), as one word ("" if empty)
RECURSIVE Concat(_)
Concat(s) == IF s = <<>> THEN "" ELSE s[1] \o Concat(Tail(s))

ParsedTag(uri) == Concat(SubSeq(uri, LastIndexOf(uri, ":") + 1, Len(uri)))

RECURSIVE IndexOf(_, _)
IndexOf(s, c) ==
  IF s = <<>> THEN 0
  ELSE IF s[1] = c THEN 1
  ELSE IF IndexOf(Tail(s), c) = 0 THEN 0
  ELSE 1 + IndexOf(Tail(s), c)

\* ecrImageUri.substring(0, lastColonIndex)
RegistryAndRepo(uri) == SubSeq(uri, 1, LastIndexOf(uri, ":") - 1)

\* mutant: the registry host is not dropped
RepoNameUnsliced(uri) == Concat(RegistryAndRepo(uri))

\* registryAndRepo.split('/').slice(1).join('/')
RepoName(uri) ==
  LET reg == RegistryAndRepo(uri)
      first == IndexOf(reg, "/")
  IN  IF first = 0 THEN "" ELSE Concat(SubSeq(reg, first + 1, Len(reg)))

\* tagOrDigest: tag || 'latest'
TagOrDigest(uri) == IF ParsedTag(uri) = "" THEN "latest" ELSE ParsedTag(uri)

\* the stack's reference to the image: fromRepositoryName(repoName) and
\* tagOrDigest
ImageOf(s, uri) == IF s = "Backend" THEN RepoName(uri) ELSE ""

\* const apiDomainName = `api.resume.${hostedZoneName}`
ApiDomainName(hostedZoneName) == <<"api", ".", "resume", ".">> \o hostedZoneName

\* this.apiEndpoint = `https://${apiDomainName}`, the APIEndpoint output
ApiEndpoint(hostedZoneName) == Concat(<<"https://">> \o ApiDomainName(hostedZoneName))

\* --------------------------------------------- deploy.sh, backend URL
\* mutant: the pattern of the shell side without the resume label
ApiUrlShort(domainName) == Concat(<<"https://api.">> \o domainName)

\* API_URL="https://api.resume.$DOMAIN_NAME"
ApiUrl(domainName) == Concat(<<"https://api.resume.">> \o domainName)

\* ------------------------------------------------------------ CDK app
\* mutant: the Certificate stack placed like the other two
StackRegionDefault(s, defaultRegion) == defaultRegion

\* region of each stack's env
StackRegion(s, defaultRegion) ==
  IF s = "Certificate" THEN "us-east-1" ELSE defaultRegion

\* describe-stacks --stack-name ResumeBotCertificateStack --region us-east-1
CertArnRegion == "us-east-1"

\* every cdk command instantiates the three stacks; a constructor that
\* throws fails the command before any platform call
SynthOk(e, uri) == e.domain # <<>> /\ e.secrets /\ uri # <<>>

\* ------------------------------------------------------------- state
VARIABLES
  registry,       \* ECR repository resume-bot/backend-lambda
  bootstrapped,   \* region -> CDKToolkit present
  stacks,         \* stack -> [status, region, param, output]
  bucket,         \* the website bucket of the Frontend stack
  namedBuckets,   \* region -> the bucket resume-bot-frontend-<account>-<region>
  env,            \* configuration: default region, DOMAIN_NAME, .env secrets
  script,         \* script being run ("none" before the first run)
  pc,             \* position in the script
  exitCode,       \* exit status of the script (-1 while running)
  errMsg,         \* print_error text of this run
  exitAt,         \* step at which the script exited ("" while running)
  successMsg,     \* the final success line was printed
  reported,       \* what the run said of the stack deletion it waited for
  LATEST_TAG,
  ECR_IMAGE_URI,  \* RESUME_BOT_ECR_IMAGE_URI of this run (<<>> if unset)
  CERT_ARN,
  STACK_STATUS,   \* status read by force-delete-stack.sh ("" if unset)
  API_URL,        \* backend URL given to the frontend build ("" if unset)
  distExists,     \* ../resume-bot-frontend/dist
  issued,         \* platform operations issued by this run, in order
  bootFailed,     \* region -> the last bootstrap attempt failed
  deployOrder,    \* stack order of the last fully successful deploy run
  runs,           \* script invocations so far
  startStacks     \* the stacks as the current run found them

vars == <<registry, bootstrapped, stacks, env, script, pc, exitCode, errMsg,
          exitAt,
          successMsg, LATEST_TAG, ECR_IMAGE_URI, CERT_ARN, distExists,
          issued, bootFailed, deployOrder, runs, bucket, startStacks,
          STACK_STATUS, API_URL, namedBuckets, reported>>

platform == <<registry, bootstrapped, stacks, bucket, namedBuckets>>
shellVars == <<LATEST_TAG, ECR_IMAGE_URI, CERT_ARN, STACK_STATUS, API_URL>>

NoStack ==
  [status |-> "NotDeployed", region |-> "", repo |-> "", param |-> "",
   output |-> ""]

\* region is the region the commands of a run act in, cliRegion what
\* aws configure get region prints: nothing if the file holds no region
Envs == [account : {Account}, region : Regions, cliRegion : Regions \cup {""},
         domain : Domains, secrets : BOOLEAN]

Init ==
  /\ registry \in Registries
  /\ bootstrapped = [r \in Regions |-> FALSE]
  /\ stacks = [s \in Stacks |-> NoStack]
  /\ bucket = "absent"
  /\ namedBuckets = [r \in Regions |-> "absent"]
  /\ startStacks = [s \in Stacks |-> NoStack]
  /\ env \in {e \in Envs : e.cliRegion = e.region}
  /\ script = "none"
  /\ pc = "idle"
  /\ exitCode = -1
  /\ errMsg = ""
  /\ exitAt = ""
  /\ successMsg = FALSE
  /\ reported = ""
  /\ LATEST_TAG = ""
  /\ ECR_IMAGE_URI = <<>>
  /\ CERT_ARN = ""
  /\ STACK_STATUS = ""
  /\ API_URL = ""
  /\ distExists = FALSE
  /\ issued = <<>>
  /\ bootFailed = [r \in Regions |-> FALSE]
  /\ deployOrder = <<>>
  /\ runs = 0

\* ------------------------------------------------------ script control
\* a new invocation: a fresh shell, the platform as the last run left it
StartRun(s) ==
  /\ pc \in {"idle", "exited"}
  /\ runs < MaxRuns
  /\ script' = s
  /\ pc' = "preflight"
  /\ exitCode' = -1
  /\ errMsg' = ""
  /\ exitAt' = ""
  /\ successMsg' = FALSE
  /\ reported' = ""
  /\ LATEST_TAG' = ""
  /\ ECR_IMAGE_URI' = <<>>
  /\ CERT_ARN' = ""
  /\ STACK_STATUS' = ""
  /\ API_URL' = ""
  /\ issued' = <<>>
  /\ runs' = runs + 1
  /\ startStacks' = stacks
  /\ UNCHANGED <<platform, env, distExists, bootFailed, deployOrder>>

\* exit <code>, after print_error <msg> if msg is not ""
Exit(code, msg) ==
  /\ pc' = "exited"
  /\ exitCode' = code
  /\ errMsg' = msg
  /\ exitAt' = pc

Goto(label) ==
  /\ pc' = label
  /\ UNCHANGED <<exitCode, errMsg, exitAt>>

\* ----------------------------------------------------- platform calls
Op(kind, target, region, ok, param) ==
  [op |-> kind, target |-> target, region |-> region, ok |-> ok,
   param |-> param, boot |-> bootstrapped[region],
   bootFailed |-> bootFailed[region], bucket |-> bucket]

\* values a successful deploy can leave in the output the scripts read
Outputs(s) ==
  IF s = "Certificate" THEN Arns \cup {""}
  ELSE IF s = "Backend" THEN {ApiEndpoint(env.domain)}
  ELSE {""}

\* a failed deploy of a deployed stack rolls back to what was deployed
AfterFailedDeploy(st) ==
  IF st.status \in {"Deployed", "DeleteFailed"} THEN st
  ELSE [st EXCEPT !.status = "Failed"]

\* the stack is deployed in the region and with the parameter of the
\* command: cdk deploy finds no difference and changes nothing
UpToDate(s, param) ==
  /\ stacks[s].status = "Deployed"
  /\ stacks[s].region = StackRegion(s, env.region)
  /\ stacks[s].param = param

\* results of a cdk deploy: none but success without a difference, none but
\* failure on a stack whose deletion failed
DeployOutcomes(s, param) ==
  IF UpToDate(s, param) THEN {TRUE}
  ELSE IF stacks[s].status = "DeleteFailed" THEN {FALSE}
  ELSE BOOLEAN

AfterDeploy(s, param, out) ==
  IF UpToDate(s, param) THEN stacks[s]
  ELSE [status |-> "Deployed", region |-> StackRegion(s, env.region),
        repo |-> ImageOf(s, ECR_IMAGE_URI), param |-> param, output |-> out]

\* the BucketDeployment of the Frontend stack copies dist into the bucket
BucketAfterDeploy(s, ok) ==
  IF s = "Frontend" /\ ok THEN "nonempty" ELSE bucket

\* mutant: without set -e a failed deploy does not end the script
CdkDeployNoHalt(s, param, next) ==
  IF ~SynthOk(env, ECR_IMAGE_URI)
  THEN /\ Exit(1, "")
       /\ UNCHANGED <<stacks, issued, bucket>>
  ELSE \E ok \in DeployOutcomes(s, param), out \in Outputs(s) :
         /\ issued' = Append(issued,
              Op("deploy", s, StackRegion(s, env.region), ok, param))
         /\ bucket' = BucketAfterDeploy(s, ok)
         /\ stacks' = [stacks EXCEPT ![s] =
              IF ok THEN AfterDeploy(s, param, out) ELSE AfterFailedDeploy(@)]
         /\ Goto(next)

\* mutant: a failed deploy is followed by the deletion of the stacks that
\* were deployed
CdkDeployRollbackAll(s, param, next) ==
  IF ~SynthOk(env, ECR_IMAGE_URI)
  THEN /\ Exit(1, "")
       /\ UNCHANGED <<stacks, issued, bucket>>
  ELSE \E ok \in DeployOutcomes(s, param), out \in Outputs(s) :
         /\ issued' = Append(issued,
              Op("deploy", s, StackRegion(s, env.region), ok, param))
         /\ bucket' = BucketAfterDeploy(s, ok)
         /\ IF ok
            THEN /\ stacks' = [stacks EXCEPT ![s] = AfterDeploy(s, param, out)]
                 /\ Goto(next)
            ELSE /\ stacks' = [t \in Stacks |->
                      IF stacks[t].status = "Deployed"
                      THEN [NoStack EXCEPT !.status = "Destroyed"]
                      ELSE AfterFailedDeploy(stacks[t])]
                 /\ Exit(1, "")

\* mutant: a stack that exists is created again and the command fails
CdkDeployCreateOnly(s, param, next) ==
  IF ~SynthOk(env, ECR_IMAGE_URI)
  THEN /\ Exit(1, "")
       /\ UNCHANGED <<stacks, issued, bucket>>
  ELSE \E ok \in (IF stacks[s].status = "Deployed" THEN {FALSE}
                  ELSE DeployOutcomes(s, param)),
          out \in Outputs(s) :
         /\ issued' = Append(issued,
              Op("deploy", s, StackRegion(s, env.region), ok, param))
         /\ bucket' = BucketAfterDeploy(s, ok)
         /\ IF ok
            THEN /\ stacks' = [stacks EXCEPT ![s] = AfterDeploy(s, param, out)]
                 /\ Goto(next)
            ELSE /\ stacks' = [stacks EXCEPT ![s] = AfterFailedDeploy(@)]
                 /\ Exit(1, "")

\* npx cdk deploy <s> [--parameters ...] --require-approval never, under
\* set -e: a non-zero status ends the script
CdkDeploy(s, param, next) ==
  IF ~SynthOk(env, ECR_IMAGE_URI)
  THEN /\ Exit(1, "")
       /\ UNCHANGED <<stacks, issued, bucket>>
  ELSE \E ok \in DeployOutcomes(s, param), out \in Outputs(s) :
         /\ issued' = Append(issued,
              Op("deploy", s, StackRegion(s, env.region), ok, param))
         /\ bucket' = BucketAfterDeploy(s, ok)
         /\ IF ok
            THEN /\ stacks' = [stacks EXCEPT ![s] = AfterDeploy(s, param, out)]
                 /\ Goto(next)
            ELSE /\ stacks' = [stacks EXCEPT ![s] = AfterFailedDeploy(@)]
                 /\ Exit(1, "")

\* the stack is there for a delete to act on
Exists(s) == stacks[s].status \notin {"NotDeployed", "Destroyed"}

\* the bucket goes with the Frontend stack (removalPolicy DESTROY,
\* autoDeleteObjects) when the deletion succeeds and stays when it fails
BucketAfterDelete(s, ok) ==
  IF s = "Frontend" /\ ok /\ Exists(s) THEN "absent" ELSE bucket

AfterDelete(s, ok) ==
  IF ~Exists(s) THEN stacks[s]
  ELSE IF ok THEN [NoStack EXCEPT !.status = "Destroyed"]
  ELSE [stacks[s] EXCEPT !.status = "DeleteFailed"]

\* npx cdk destroy <s> --force, under set -e
CdkDestroy(s, next) ==
  IF ~SynthOk(env, ECR_IMAGE_URI)
  THEN /\ Exit(1, "")
       /\ UNCHANGED <<stacks, issued, bucket>>
  ELSE \E ok \in BOOLEAN :
         /\ issued' = Append(issued,
              Op("destroy", s, StackRegion(s, env.region), ok, ""))
         /\ stacks' = [stacks EXCEPT ![s] = AfterDelete(s, ok)]
         /\ bucket' = BucketAfterDelete(s, ok)
         /\ IF ok THEN Goto(next) ELSE Exit(1, "")

\* npx cdk bootstrap aws://<account>/<r>: safe to run multiple times; a
\* region that has its CDKToolkit stack is left as it is
CdkBootstrap(r, ok) ==
  /\ issued' = Append(issued, Op("bootstrap", r, r, ok, ""))
  /\ bootstrapped' = [bootstrapped EXCEPT ![r] = @ \/ ok]
  /\ bootFailed' = [bootFailed EXCEPT ![r] = ~ok]

BootstrapOutcomes(r) == IF bootstrapped[r] THEN {TRUE} ELSE BOOLEAN

\* ../resume-bot-backend/scripts/build-and-push.sh pushes an image, later
\* than every image of the repository; a tag it pushes leaves the image
\* that carried it
PushedTagLists == {<<"v3", "latest">>, <<"latest">>}

Untag(reg, tags) ==
  [i \in DOMAIN reg |->
     [reg[i] EXCEPT !.imageTags = SelectSeq(@, LAMBDA t : t \notin Range(tags))]]

PushImage(reg, tags) ==
  Append(Untag(reg, tags), Image(Len(reg) + 1, tags))

\* ------------------------------------------------------------ deploy.sh
DeployPreflight ==
  /\ script = "deploy" /\ pc = "preflight"
  /\ \E ok \in BOOLEAN :
       IF ok THEN Goto("push") ELSE Exit(1, "preflight")
  /\ UNCHANGED <<platform, env, script, successMsg, reported, shellVars, distExists,
                 issued, bootFailed, deployOrder, runs, startStacks>>

BuildAndPush ==
  /\ script = "deploy" /\ pc = "push"
  /\ \/ /\ Exit(1, "")
        /\ issued' = Append(issued, Op("push", "registry", env.region, FALSE, ""))
        /\ UNCHANGED registry
     \/ /\ Goto("resolve")
        /\ issued' = Append(issued, Op("push", "registry", env.region, TRUE, ""))
        /\ UNCHANGED registry
     \/ /\ Len(registry) < MaxImages
        /\ \E tags \in PushedTagLists : registry' = PushImage(registry, tags)
        /\ issued' = Append(issued, Op("push", "registry", env.region, TRUE, ""))
        /\ Goto("resolve")
  /\ UNCHANGED <<bootstrapped, stacks, bucket, namedBuckets, env, script, successMsg, reported,
                 shellVars, distExists, bootFailed, deployOrder, runs,
                 startStacks>>

\* mutant: the test of LATEST_TAG is left out and the run goes on to the
\* Certificate stack with whatever the loop left in it
ResolveImageUntested ==
  /\ script = "deploy" /\ pc = "resolve"
  /\ LET tag == FirstNonLatest(DescribeImagesText(registry))
     IN  /\ LATEST_TAG' = tag
         /\ issued' = Append(issued,
                             Op("describe-images", "registry", env.region, TRUE, tag))
         /\ ECR_IMAGE_URI' = EcrImageUri(env.account, env.region, tag)
         /\ Goto("cert")
  /\ UNCHANGED <<platform, env, script, successMsg, reported, CERT_ARN, STACK_STATUS, API_URL,
                 distExists,
                 bootFailed, deployOrder, runs, startStacks>>

\* ALL_TAGS=$(aws ecr describe-images ...), the loop over its words and the
\* test of LATEST_TAG
ResolveImage ==
  /\ script = "deploy" /\ pc = "resolve"
  /\ LET tag == FirstNonLatest(DescribeImagesText(registry))
     IN  /\ LATEST_TAG' = tag
         /\ issued' = Append(issued,
                             Op("describe-images", "registry", env.region, TRUE, tag))
         /\ IF TagUsable(tag)
            THEN /\ ECR_IMAGE_URI' = EcrImageUri(env.account, env.region, tag)
                 /\ Goto("cert")
            ELSE /\ ECR_IMAGE_URI' = ECR_IMAGE_URI
                 /\ Exit(1, NoImagesFound)
  /\ UNCHANGED <<platform, env, script, successMsg, reported, CERT_ARN, STACK_STATUS, API_URL,
                 distExists,
                 bootFailed, deployOrder, runs, startStacks>>

DeployCertificate ==
  /\ script = "deploy" /\ pc = "cert"
  /\ CdkDeploy("Certificate", "", "certarn")
  /\ UNCHANGED <<registry, bootstrapped, namedBuckets, env, script, successMsg, reported, shellVars,
                 distExists, bootFailed, deployOrder, runs, startStacks>>

\* mutant: the certificate ARN is used without the test for empty
ReadCertArnUnchecked ==
  /\ script = "deploy" /\ pc = "certarn"
  /\ CERT_ARN' = stacks["Certificate"].output
  /\ Goto("backend")
  /\ UNCHANGED <<platform, env, script, successMsg, reported, LATEST_TAG, ECR_IMAGE_URI,
                 STACK_STATUS, API_URL,
                 distExists, issued, bootFailed, deployOrder, runs, startStacks>>

\* aws cloudformation describe-stacks --stack-name ResumeBotCertificateStack
\* --region us-east-1 ... CertificateArn
ReadCertArn ==
  /\ script = "deploy" /\ pc = "certarn"
  /\ LET arn == IF stacks["Certificate"].region = CertArnRegion
                THEN stacks["Certificate"].output ELSE ""
     IN  /\ CERT_ARN' = arn
         /\ IF arn = ""
            THEN Exit(1, "Failed to get certificate ARN")
            ELSE Goto("backend")
  /\ UNCHANGED <<platform, env, script, successMsg, reported, LATEST_TAG, ECR_IMAGE_URI,
                 STACK_STATUS, API_URL,
                 distExists, issued, bootFailed, deployOrder, runs, startStacks>>

DeployBackend ==
  /\ script = "deploy" /\ pc = "backend"
  /\ CdkDeploy("Backend", TagOrDigest(ECR_IMAGE_URI), "domain")
  /\ UNCHANGED <<registry, bootstrapped, namedBuckets, env, script, successMsg, reported, shellVars,
                 distExists, bootFailed, deployOrder, runs, startStacks>>

CheckDomain ==
  /\ script = "deploy" /\ pc = "domain"
  /\ IF env.domain # <<>>
     THEN /\ API_URL' = ApiUrl(env.domain)
          /\ Goto("build")
     ELSE /\ API_URL' = API_URL
          /\ Exit(1, "DOMAIN_NAME environment variable is not set")
  /\ UNCHANGED <<platform, env, script, successMsg, reported, LATEST_TAG, ECR_IMAGE_URI,
                 CERT_ARN, STACK_STATUS, distExists,
                 issued, bootFailed, deployOrder, runs, startStacks>>

\* mutant: the dist directory is not tested after the build
BuildFrontendUnchecked ==
  /\ script = "deploy" /\ pc = "build"
  /\ \/ /\ Exit(1, "")
        /\ UNCHANGED distExists
     \/ \E d \in BOOLEAN :
          /\ distExists' = d
          /\ Goto("frontend")
  /\ UNCHANGED <<platform, env, script, successMsg, reported, shellVars, issued,
                 bootFailed, deployOrder, runs, startStacks>>

\* VITE_API_URL=$API_URL ../resume-bot-frontend/scripts/build.sh, then the
\* test for the dist directory
BuildFrontend ==
  /\ script = "deploy" /\ pc = "build"
  /\ \/ /\ Exit(1, "")
        /\ UNCHANGED distExists
     \/ \E d \in BOOLEAN :
          /\ distExists' = d
          /\ IF d THEN Goto("frontend")
             ELSE Exit(1, "Frontend build failed")
  /\ UNCHANGED <<platform, env, script, successMsg, reported, shellVars, issued,
                 bootFailed, deployOrder, runs, startStacks>>

DeployFrontend ==
  /\ script = "deploy" /\ pc = "frontend"
  /\ CdkDeploy("Frontend", CERT_ARN, "done")
  /\ UNCHANGED <<registry, bootstrapped, namedBuckets, env, script, successMsg, reported, shellVars,
                 distExists, bootFailed, deployOrder, runs, startStacks>>

Targets(ops, kind) ==
  LET sel == SelectSeq(ops, LAMBDA e : e.op = kind)
  IN  [i \in DOMAIN sel |-> sel[i].target]

DeployDone ==
  /\ script = "deploy" /\ pc = "done"
  /\ successMsg' = TRUE
  /\ Exit(0, "")
  /\ deployOrder' = Targets(issued, "deploy")
  /\ UNCHANGED <<platform, env, script, reported, shellVars, distExists, issued,
                 bootFailed, runs, startStacks>>

\* ----------------------------------------------------------- destroy.sh
DummyImageUri == EcrImageUri("123456789012", "ca-central-1", "dummy-for-destroy")

\* mutant: the script starts with the backend stack
DestroyPreflightBackendFirst ==
  /\ script = "destroy" /\ pc = "preflight"
  /\ ECR_IMAGE_URI' = DummyImageUri
  /\ Goto("backend")
  /\ UNCHANGED <<platform, env, script, successMsg, reported, LATEST_TAG, CERT_ARN,
                 STACK_STATUS, API_URL,
                 distExists, issued, bootFailed, deployOrder, runs, startStacks>>

DestroyPreflight ==
  /\ script = "destroy" /\ pc = "preflight"
  /\ \E ok \in BOOLEAN :
       IF ok
       THEN /\ ECR_IMAGE_URI' = DummyImageUri
            /\ Goto("frontend")
       ELSE /\ ECR_IMAGE_URI' = ECR_IMAGE_URI
            /\ Exit(1, "preflight")
  /\ UNCHANGED <<platform, env, script, successMsg, reported, LATEST_TAG, CERT_ARN,
                 STACK_STATUS, API_URL,
                 distExists, issued, bootFailed, deployOrder, runs, startStacks>>

DestroyFrontend ==
  /\ script = "destroy" /\ pc = "frontend"
  /\ CdkDestroy("Frontend", "backend")
  /\ UNCHANGED <<registry, bootstrapped, namedBuckets, env, script, successMsg, reported, shellVars,
                 distExists, bootFailed, deployOrder, runs, startStacks>>

DestroyBackend ==
  /\ script = "destroy" /\ pc = "backend"
  /\ CdkDestroy("Backend", "cert")
  /\ UNCHANGED <<registry, bootstrapped, namedBuckets, env, script, successMsg, reported, shellVars,
                 distExists, bootFailed, deployOrder, runs, startStacks>>

DestroyCertificate ==
  /\ script = "destroy" /\ pc = "cert"
  /\ CdkDestroy("Certificate", "done")
  /\ UNCHANGED <<registry, bootstrapped, namedBuckets, env, script, successMsg, reported, shellVars,
                 distExists, bootFailed, deployOrder, runs, startStacks>>

DestroyDone ==
  /\ script = "destroy" /\ pc = "done"
  /\ successMsg' = TRUE
  /\ Exit(0, "")
  /\ UNCHANGED <<platform, env, script, reported, shellVars, distExists, issued,
                 bootFailed, deployOrder, runs, startStacks>>

\* ------------------------------------------- scripts/bootstrap-regions.sh
BootstrapPreflight ==
  /\ script = "bootstrap" /\ pc = "preflight"
  /\ \E ok \in BOOLEAN :
       IF ok THEN Goto("default")
       ELSE Exit(1, "AWS CLI is not configured or credentials are invalid")
  /\ UNCHANGED <<platform, env, script, successMsg, reported, shellVars, distExists,
                 issued, bootFailed, deployOrder, runs, startStacks>>

\* mutant: a region that is already bootstrapped is reported as a failure
BootstrapRegionOnce(r, next) ==
  \E ok \in BOOLEAN :
    /\ CdkBootstrap(r, ok /\ ~bootstrapped[r])
    /\ IF ok /\ ~bootstrapped[r] THEN Goto(next)
       ELSE Exit(1, "Failed to bootstrap")

\* if npx cdk bootstrap aws://$CDK_ACCOUNT/<r>; then print_success
\* else print_error; exit 1
BootstrapRegion(r, next) ==
  \E ok \in BootstrapOutcomes(r) :
    /\ CdkBootstrap(r, ok)
    /\ IF ok THEN Goto(next) ELSE Exit(1, "Failed to bootstrap")

BootstrapDefault ==
  /\ script = "bootstrap" /\ pc = "default"
  /\ BootstrapRegion(env.region, "useast1")
  /\ UNCHANGED <<registry, stacks, bucket, namedBuckets, env, script, successMsg, reported,
                 shellVars, distExists, deployOrder, runs, startStacks>>

BootstrapUsEast1 ==
  /\ script = "bootstrap" /\ pc = "useast1"
  /\ BootstrapRegion("us-east-1", "done")
  /\ UNCHANGED <<registry, stacks, bucket, namedBuckets, env, script, successMsg, reported,
                 shellVars, distExists, deployOrder, runs, startStacks>>

BootstrapDone ==
  /\ script = "bootstrap" /\ pc = "done"
  /\ successMsg' = TRUE
  /\ Exit(0, "")
  /\ UNCHANGED <<platform, env, script, reported, shellVars, distExists, issued,
                 bootFailed, deployOrder, runs, startStacks>>

\* -------------------------------------------------- force-delete-stack.sh
\* StackStatus as describe-stacks prints it
CfnStatus(st) ==
  CASE st = "Deployed"         -> "CREATE_COMPLETE"
    [] st = "Failed"           -> "ROLLBACK_COMPLETE"
    [] st = "DeleteFailed"     -> "DELETE_FAILED"
    [] st = "DeleteInProgress" -> "DELETE_IN_PROGRESS"
    [] OTHER                   -> ""

\* the website bucket has no bucketName: its name is generated from the
\* stack and the construct
WebsiteBucketName ==
  <<"resumebotfrontendstack", "-", "resumebotwebsitebucket", "-", "generated">>

\* BUCKET_NAME="resume-bot-frontend-${ACCOUNT_ID}-${REGION}"
RecoveryBucketName(account, region) ==
  <<"resume-bot-frontend", "-", account, "-", region>>

\* REGION=$(aws configure get region || echo "us-east-1")
ForceRegion(e) == IF e.cliRegion = "" THEN "us-east-1" ELSE e.cliRegion

\* REGION=$(aws configure get region || echo "ca-central-1")
FixRegion(e) == IF e.cliRegion = "" THEN "ca-central-1" ELSE e.cliRegion

ForceBucketName(e) == RecoveryBucketName(e.account, ForceRegion(e))

FixBucketName(e) == RecoveryBucketName(e.account, FixRegion(e))

\* the state of the bucket of a name: the website bucket, a bucket of the
\* name the recovery scripts compute, or no bucket
BucketState(name) ==
  IF name = WebsiteBucketName THEN bucket
  ELSE IF \E r \in Regions : name = RecoveryBucketName(Account, r)
  THEN namedBuckets[CHOOSE r \in Regions : name = RecoveryBucketName(Account, r)]
  ELSE "absent"

\* aws s3 ls "s3://<name>", aws s3api head-bucket --bucket <name>
BucketExists(name) == BucketState(name) # "absent"

SetBucket(name, st) ==
  /\ bucket' = IF name = WebsiteBucketName THEN st ELSE bucket
  /\ namedBuckets' =
       [r \in Regions |-> IF name = RecoveryBucketName(Account, r) THEN st
                          ELSE namedBuckets[r]]

\* STACK_STATUS=$(aws cloudformation describe-stacks ...); a stack that is
\* not there, or a call that fails, ends the script with status 1
ForceCheckStatus ==
  /\ script = "forcedelete" /\ pc = "preflight"
  /\ \E ok \in BOOLEAN :
       IF ok /\ Exists("Frontend")
       THEN /\ STACK_STATUS' = CfnStatus(stacks["Frontend"].status)
            /\ Goto(IF STACK_STATUS' = "DELETE_FAILED" THEN "continue"
                    ELSE IF STACK_STATUS' = "DELETE_IN_PROGRESS" THEN "wait"
                    ELSE "delete")
       ELSE /\ STACK_STATUS' = ""
            /\ Exit(1, "Stack not found")
  /\ UNCHANGED <<platform, env, script, successMsg, reported, LATEST_TAG, ECR_IMAGE_URI,
                 CERT_ARN, API_URL, distExists, issued, bootFailed,
                 deployOrder, runs, startStacks>>

\* aws cloudformation continue-update-rollback --resources-to-skip ..., and
\* wait stack-update-complete if the call was accepted; the stack stays in
\* DELETE_FAILED either way
ForceContinue ==
  /\ script = "forcedelete" /\ pc = "continue"
  /\ \E ok \in BOOLEAN :
       issued' = Append(issued,
         Op("continue-update-rollback", "Frontend", env.region, ok,
            "ResumeBotWebsiteBucketPolicy54B8C173"))
  /\ Goto("redelete")
  /\ UNCHANGED <<platform, env, script, successMsg, reported, shellVars, distExists,
                 bootFailed, deployOrder, runs, startStacks>>

\* aws cloudformation delete-stack: an accepted call starts the deletion
DeleteStack(ok) ==
  /\ issued' = Append(issued, Op("delete-stack", "Frontend", env.region, ok, ""))
  /\ stacks' = [stacks EXCEPT !["Frontend"] =
       IF ok /\ Exists("Frontend") THEN [@ EXCEPT !.status = "DeleteInProgress"]
       ELSE @]

\* the delete of the DELETE_FAILED branch: a rejected call prints the manual
\* steps and the script goes on
ForceRedelete ==
  /\ script = "forcedelete" /\ pc = "redelete"
  /\ \E ok \in BOOLEAN :
       /\ DeleteStack(ok)
       /\ Goto(IF ok THEN "wait" ELSE "bucket")
  /\ UNCHANGED <<registry, bootstrapped, namedBuckets, bucket, env, script, successMsg, reported,
                 shellVars, distExists, bootFailed, deployOrder, runs,
                 startStacks>>

\* the delete of the last branch: a rejected call ends the script
ForceDelete ==
  /\ script = "forcedelete" /\ pc = "delete"
  /\ \E ok \in BOOLEAN :
       /\ DeleteStack(ok)
       /\ IF ok THEN Goto("wait")
          ELSE Exit(1, "Failed to initiate stack deletion")
  /\ UNCHANGED <<registry, bootstrapped, namedBuckets, bucket, env, script, successMsg, reported,
                 shellVars, distExists, bootFailed, deployOrder, runs,
                 startStacks>>

\* aws cloudformation wait stack-delete-complete: the deletion completed,
\* failed, or is still running when the wait ends; the Op records which
WaitDelete(st) ==
  /\ issued' = Append(issued,
       Op("wait-delete", "Frontend", env.region, st = "Destroyed", st))
  /\ stacks' = [stacks EXCEPT !["Frontend"] =
       IF st = "Destroyed" THEN [NoStack EXCEPT !.status = "Destroyed"]
       ELSE [@ EXCEPT !.status = st]]
  /\ bucket' = IF st = "Destroyed" THEN "absent" ELSE bucket

WaitOutcomes == {"Destroyed", "DeleteFailed", "DeleteInProgress"}

\* the wait of force-delete-stack.sh has no ceiling of the script's own and
\* its status is not tested: the success line follows it in every case
ForceWait ==
  /\ script = "forcedelete" /\ pc = "wait"
  /\ \E st \in WaitOutcomes : WaitDelete(st)
  /\ reported' = "deleted"
  /\ Goto("bucket")
  /\ UNCHANGED <<registry, bootstrapped, namedBuckets, env, script, successMsg, shellVars,
                 distExists, bootFailed, deployOrder, runs, startStacks>>

\* aws s3 rm --recursive, then aws s3 rb, which removes an empty bucket
EmptyAndRemove(name, emptied, removed) ==
  /\ issued' = issued \o
       <<Op("s3-rm", Concat(name), env.region, emptied, ""),
         Op("s3-rb", Concat(name), env.region,
            (emptied \/ BucketState(name) = "empty") /\ removed, "")>>
  /\ SetBucket(name, IF emptied \/ BucketState(name) = "empty"
                     THEN (IF removed THEN "absent" ELSE "empty")
                     ELSE BucketState(name))

\* the check for a remaining bucket; nothing follows it but the last line
ForceBucketCleanup ==
  /\ script = "forcedelete" /\ pc = "bucket"
  /\ LET name == ForceBucketName(env)
     IN  IF BucketExists(name)
         THEN \E emptied \in BOOLEAN, removed \in BOOLEAN :
                EmptyAndRemove(name, emptied, removed)
         ELSE UNCHANGED <<bucket, namedBuckets, issued>>
  /\ Goto("done")
  /\ UNCHANGED <<registry, bootstrapped, stacks, env, script, successMsg, reported,
                 shellVars, distExists, bootFailed, deployOrder, runs,
                 startStacks>>

ForceDone ==
  /\ script = "forcedelete" /\ pc = "done"
  /\ successMsg' = TRUE
  /\ Exit(0, "")
  /\ UNCHANGED <<platform, env, script, reported, shellVars, distExists, issued,
                 bootFailed, deployOrder, runs, startStacks>>

\* ------------------------------------- the fix-bucket-policy script
\* aws s3api head-bucket: without the bucket the script ends with status 1
FixCheckBucket ==
  /\ script = "fixbucket" /\ pc = "preflight"
  /\ IF BucketExists(FixBucketName(env)) THEN Goto("empty")
     ELSE Exit(1, "Bucket does not exist")
  /\ UNCHANGED <<platform, env, script, successMsg, reported, shellVars,
                 distExists, issued, bootFailed, deployOrder, runs,
                 startStacks>>

\* Step 1, aws s3api delete-bucket-policy, and Step 2, aws s3 rm
\* --recursive: the results are printed and the script goes on
FixEmptyBucket ==
  /\ script = "fixbucket" /\ pc = "empty"
  /\ LET name == FixBucketName(env)
     IN  \E policy \in BOOLEAN, emptied \in BOOLEAN :
           /\ issued' = issued \o
                <<Op("delete-bucket-policy", Concat(name), env.region, policy, ""),
                  Op("s3-rm", Concat(name), env.region, emptied, "")>>
           /\ SetBucket(name, IF emptied THEN "empty" ELSE BucketState(name))
  /\ Goto("fixdelete")
  /\ UNCHANGED <<registry, bootstrapped, stacks, env, script, successMsg,
                 reported, shellVars, distExists, bootFailed, deployOrder,
                 runs, startStacks>>

\* Step 3, aws cloudformation delete-stack: a rejected call is printed and
\* the script goes on to step 4
FixDeleteStack ==
  /\ script = "fixbucket" /\ pc = "fixdelete"
  /\ \E ok \in BOOLEAN :
       /\ DeleteStack(ok)
       /\ Goto(IF ok THEN "fixwait" ELSE "final")
  /\ UNCHANGED <<registry, bootstrapped, namedBuckets, bucket, env, script,
                 successMsg, reported, shellVars, distExists, bootFailed,
                 deployOrder, runs, startStacks>>

\* timeout 300 aws cloudformation wait stack-delete-complete: status 0 is
\* reported as deleted, any other, the expired timeout included, as taking
\* longer than expected
FixReport(st) == IF st = "Destroyed" THEN "deleted" ELSE "in-progress"

FixWait ==
  /\ script = "fixbucket" /\ pc = "fixwait"
  /\ \E st \in IF Exists("Frontend") THEN WaitOutcomes ELSE {"Destroyed"} :
       /\ WaitDelete(st)
       /\ reported' = FixReport(st)
  /\ Goto("final")
  /\ UNCHANGED <<registry, bootstrapped, namedBuckets, env, script, successMsg,
                 shellVars, distExists, bootFailed, deployOrder, runs,
                 startStacks>>

\* Step 4, head-bucket and aws s3 rb --force, which empties and removes
FixFinalCleanup ==
  /\ script = "fixbucket" /\ pc = "final"
  /\ LET name == FixBucketName(env)
     IN  IF BucketExists(name)
         THEN \E removed \in BOOLEAN :
                /\ issued' = Append(issued,
                     Op("s3-rb-force", Concat(name), env.region, removed,
                        stacks["Frontend"].status))
                /\ SetBucket(name, IF removed THEN "absent"
                                   ELSE BucketState(name))
         ELSE UNCHANGED <<bucket, namedBuckets, issued>>
  /\ Goto("done")
  /\ UNCHANGED <<registry, bootstrapped, stacks, env, script, successMsg,
                 reported, shellVars, distExists, bootFailed, deployOrder,
                 runs, startStacks>>

FixDone ==
  /\ script = "fixbucket" /\ pc = "done"
  /\ successMsg' = TRUE
  /\ Exit(0, "")
  /\ UNCHANGED <<platform, env, script, reported, shellVars, distExists, issued,
                 bootFailed, deployOrder, runs, startStacks>>

\* ------------------------------------------------------- specification
Next ==
  \/ \E s \in Scripts : StartRun(s)
  \/ DeployPreflight
  \/ BuildAndPush
  \/ ResolveImage
  \/ DeployCertificate
  \/ ReadCertArn
  \/ DeployBackend
  \/ CheckDomain
  \/ BuildFrontend
  \/ DeployFrontend
  \/ DeployDone
  \/ DestroyPreflight
  \/ DestroyFrontend
  \/ DestroyBackend
  \/ DestroyCertificate
  \/ DestroyDone
  \/ BootstrapPreflight
  \/ BootstrapDefault
  \/ BootstrapUsEast1
  \/ BootstrapDone

Spec == Init /\ [][Next]_vars

\* force-delete-stack.sh, run against what deploy.sh and a destroy.sh whose
\* Frontend destroy succeeded, failed or was cut short leave behind
ForceStarts ==
  {<<"Deployed", "nonempty">>, <<"DeleteFailed", "nonempty">>,
   <<"DeleteInProgress", "nonempty">>, <<"Destroyed", "absent">>}

DeployedStack(s, region, param, out) ==
  [status |-> "Deployed", region |-> StackRegion(s, region),
   repo |-> ImageOf(s, EcrImageUri(Account, region, param)),
   param |-> param, output |-> out]

InitForce ==
  /\ registry = <<Image(1, <<"v3">>)>>
  /\ bootstrapped = [r \in Regions |-> FALSE]
  /\ env \in {e \in Envs : e.domain # <<>> /\ e.secrets}
  /\ \E start \in ForceStarts :
       /\ stacks = [s \in Stacks |->
            IF s = "Certificate"
            THEN DeployedStack(s, env.region, "", "arn:cert1")
            ELSE IF s = "Backend"
            THEN DeployedStack(s, env.region, "v3", ApiEndpoint(env.domain))
            ELSE IF start[1] = "Destroyed"
            THEN [NoStack EXCEPT !.status = "Destroyed"]
            ELSE [DeployedStack(s, env.region, "arn:cert1", "")
                    EXCEPT !.status = start[1]]]
       /\ bucket = start[2]
  /\ namedBuckets \in [Regions -> {"absent", "nonempty"}]
  /\ startStacks = [s \in Stacks |-> NoStack]
  /\ script = "none"
  /\ pc = "idle"
  /\ exitCode = -1
  /\ errMsg = ""
  /\ exitAt = ""
  /\ successMsg = FALSE
  /\ reported = ""
  /\ LATEST_TAG = ""
  /\ ECR_IMAGE_URI = <<>>
  /\ CERT_ARN = ""
  /\ STACK_STATUS = ""
  /\ API_URL = ""
  /\ distExists = TRUE
  /\ issued = <<>>
  /\ bootFailed = [r \in Regions |-> FALSE]
  /\ deployOrder = <<"Certificate", "Backend", "Frontend">>
  /\ runs = 0

NextForce ==
  \/ StartRun("forcedelete")
  \/ ForceCheckStatus
  \/ ForceContinue
  \/ ForceRedelete
  \/ ForceDelete
  \/ ForceWait
  \/ ForceBucketCleanup
  \/ ForceDone
  \/ StartRun("fixbucket")
  \/ FixCheckBucket
  \/ FixEmptyBucket
  \/ FixDeleteStack
  \/ FixWait
  \/ FixFinalCleanup
  \/ FixDone

SpecForce == InitForce /\ [][NextForce]_vars

\* the image reference and the backend URL, built by deploy.sh and by the
\* Backend stack from the same account, region, tag and DOMAIN_NAME
RefAccounts == {Account, "210987654321"}

RefDomains ==
  {<<"example", ".", "com">>, <<"sub", ".", "example", ".", "org">>,
   <<"localhost">>}

RefTags == {"v3", "backend-20240814-161523-a1b2c3d4", "a/b", "v1:x", "None", ""}

InitRef ==
  /\ registry = <<>>
  /\ bootstrapped = [r \in Regions |-> FALSE]
  /\ stacks = [s \in Stacks |-> NoStack]
  /\ bucket = "absent"
  /\ namedBuckets = [r \in Regions |-> "absent"]
  /\ startStacks = [s \in Stacks |-> NoStack]
  /\ env \in [account : RefAccounts, region : Regions, cliRegion : {""},
               domain : RefDomains, secrets : {TRUE}]
  /\ script = "deploy"
  /\ pc = "resolve"
  /\ exitCode = -1
  /\ errMsg = ""
  /\ exitAt = ""
  /\ successMsg = FALSE
  /\ reported = ""
  /\ LATEST_TAG \in RefTags
  /\ ECR_IMAGE_URI = <<>>
  /\ CERT_ARN = ""
  /\ STACK_STATUS = ""
  /\ API_URL = ""
  /\ distExists = FALSE
  /\ issued = <<>>
  /\ bootFailed = [r \in Regions |-> FALSE]
  /\ deployOrder = <<>>
  /\ runs = 1

\* the test of LATEST_TAG and the construction of ECR_IMAGE_URI
RefBuildUri ==
  /\ script = "deploy" /\ pc = "resolve"
  /\ IF TagUsable(LATEST_TAG)
     THEN /\ ECR_IMAGE_URI' = EcrImageUri(env.account, env.region, LATEST_TAG)
          /\ Goto("backend")
     ELSE /\ ECR_IMAGE_URI' = ECR_IMAGE_URI
          /\ Exit(1, NoImagesFound)
  /\ UNCHANGED <<platform, env, script, successMsg, reported, LATEST_TAG,
                 CERT_ARN, STACK_STATUS, API_URL, distExists, issued,
                 bootFailed, deployOrder, runs, startStacks>>

\* the constructor of the Backend stack: the repository and the tag parsed
\* from the reference, the APIEndpoint output from DOMAIN_NAME
RefSynthBackend ==
  /\ script = "deploy" /\ pc = "backend"
  /\ stacks' = [stacks EXCEPT !["Backend"] =
       [@ EXCEPT !.repo = RepoName(ECR_IMAGE_URI),
                 !.param = TagOrDigest(ECR_IMAGE_URI),
                 !.output = ApiEndpoint(env.domain)]]
  /\ Goto("domain")
  /\ UNCHANGED <<registry, bootstrapped, bucket, namedBuckets, env, script,
                 successMsg, reported, shellVars, distExists, issued,
                 bootFailed, deployOrder, runs, startStacks>>

\* API_URL="https://api.resume.$DOMAIN_NAME"
RefApiUrl ==
  /\ script = "deploy" /\ pc = "domain"
  /\ API_URL' = ApiUrl(env.domain)
  /\ Goto("build")
  /\ UNCHANGED <<platform, env, script, successMsg, reported, LATEST_TAG,
                 ECR_IMAGE_URI, CERT_ARN, STACK_STATUS, distExists, issued,
                 bootFailed, deployOrder, runs, startStacks>>

NextRef ==
  \/ RefBuildUri
  \/ RefSynthBackend
  \/ RefApiUrl

SpecRef == InitRef /\ [][NextRef]_vars

\* ================================================================ claims
DeployOps == {i \in DOMAIN issued : issued[i].op = "deploy"}

DeployedOkBefore(s, i) ==
  \E j \in 1..(i - 1) :
    issued[j].op = "deploy" /\ issued[j].target = s /\ issued[j].ok

IsPrefix(p, q) == Len(p) <= Len(q) /\ p = SubSeq(q, 1, Len(p))

Reverse(q) == [i \in DOMAIN q |-> q[Len(q) + 1 - i]]

\* stacks whose outputs a stack consumes
DependsOn(s) == IF s = "Frontend" THEN {"Certificate", "Backend"} ELSE {}

\* C1: in a deploy run a stack's deploy is issued only after the deploys of
\* the stacks it depends on succeeded; Frontend comes after Certificate and
\* Backend, and the order issued is Certificate, Backend, Frontend or
\* Backend, Certificate, Frontend, never Frontend first.
C1_DeployOrder ==
  script = "deploy" =>
    /\ \A i \in DeployOps : \A d \in DependsOn(issued[i].target) :
         DeployedOkBefore(d, i)
    /\ \/ IsPrefix(Targets(issued, "deploy"), <<"Certificate", "Backend", "Frontend">>)
       \/ IsPrefix(Targets(issued, "deploy"), <<"Backend", "Certificate", "Frontend">>)

C1_Witness ==
  /\ script = "deploy"
  /\ Targets(issued, "deploy") = <<"Certificate", "Backend", "Frontend">>

FailedDeploy(s) ==
  \E i \in DeployOps : issued[i].target = s /\ ~issued[i].ok

Attempted(s) == \E i \in DeployOps : issued[i].target = s

C3_DestroyReversesDeploy ==
  script = "destroy" =>
    /\ IsPrefix(Targets(issued, "destroy"),
                Reverse(<<"Certificate", "Backend", "Frontend">>))
    /\ deployOrder # <<>> =>
         IsPrefix(Targets(issued, "destroy"), Reverse(deployOrder))
    /\ (pc = "exited" /\ exitCode = 0 /\ deployOrder # <<>>) =>
         Targets(issued, "destroy") = Reverse(deployOrder)
    /\ \A i \in DOMAIN issued : \A j \in 1..(i - 1) : issued[j].ok

C3_Witness ==
  /\ script = "destroy" /\ pc = "exited" /\ exitCode = 0
  /\ deployOrder = <<"Certificate", "Backend", "Frontend">>
  /\ Len(issued) = 3

\* the image sort_by(...)[-1] selects, and its tags
Newest(reg) == SortByPushedAt(reg)[Len(reg)]

NewestTags(reg) == IF reg = <<>> THEN {} ELSE Range(Newest(reg).imageTags)

\* the run has passed the resolution step
ResolutionFailed == script = "deploy" /\ pc = "exited" /\ exitAt = "resolve"

Resolved == script = "deploy" /\ ECR_IMAGE_URI # <<>>

\* C4: the tag the Backend stack is deployed with is never "latest": an
\* exported image reference carries a tag of the most recently pushed
\* image other than "latest", and Backend deploys exactly that tag.
C4_NeverLatest ==
  /\ Resolved =>
       /\ ECR_IMAGE_URI[Len(ECR_IMAGE_URI)] = LATEST_TAG
       /\ LATEST_TAG \in NewestTags(registry) \ {"latest"}
  /\ script = "deploy" =>
       \A i \in DeployOps : issued[i].target = "Backend" =>
         issued[i].param = LATEST_TAG /\ issued[i].param # "latest"
  /\ stacks["Backend"].status = "Deployed" => stacks["Backend"].param # "latest"

C4_Witness ==
  /\ script = "deploy"
  /\ "latest" \in NewestTags(registry)
  /\ \E i \in DeployOps :
       issued[i].target = "Backend" /\ issued[i].ok /\ issued[i].param = "v3"

\* C5 as stated: resolution looks at the newest image only; if that image
\* has a tag other than "latest" the result is such a tag of that image,
\* and if it has none resolution fails.
C5_ResolveNewest ==
  (Resolved \/ ResolutionFailed) =>
    IF NewestTags(registry) \ {"latest"} # {}
    THEN Resolved /\ LATEST_TAG \in NewestTags(registry) \ {"latest"}
    ELSE ResolutionFailed

\* C6 as stated: the failure for a repository without images and the
\* failure for a newest image that carries only "latest" are reported as
\* different outcomes.
C6_DistinctErrors ==
  ResolutionFailed =>
    /\ registry = <<>> => errMsg = NoImagesFound
    /\ NewestTags(registry) = {"latest"} => errMsg # NoImagesFound

\* C7 as stated: when a deploy run issues a stack's deploy, the region of
\* that stack has been bootstrapped.
C7_BootstrappedBeforeDeploy ==
  script = "deploy" => \A i \in DeployOps : issued[i].boot

\* C8 as stated: a failed bootstrap ends the bootstrap run non-zero without
\* the success line and without bootstrapping a later region, and no
\* stack is deployed to a region whose bootstrap failed.
C8_BootstrapFailureFatal ==
  /\ script = "bootstrap" =>
       \A i \in DOMAIN issued : ~issued[i].ok =>
         i = Len(issued) /\ pc = "exited" /\ exitCode = 1 /\ ~successMsg
  /\ \A i \in DeployOps : issued[i].ok => ~issued[i].bootFailed

\* the step issues a bootstrap of a region that is already bootstrapped
RebootstrapStep ==
  /\ Len(issued') = Len(issued) + 1
  /\ issued'[Len(issued')].op = "bootstrap"
  /\ bootstrapped[issued'[Len(issued')].target]

C10_ParametersResolved ==
  script = "deploy" =>
    \A i \in DeployOps :
      /\ issued[i].target = "Frontend" =>
           /\ issued[i].param # ""
           /\ issued[i].param = CERT_ARN
           /\ issued[i].param = stacks["Certificate"].output
           /\ stacks["Certificate"].status = "Deployed"
      /\ issued[i].target = "Backend" =>
           /\ ECR_IMAGE_URI = EcrImageUri(env.account, env.region, LATEST_TAG)
           /\ TagUsable(LATEST_TAG)
           /\ issued[i].param # ""

C10_Witness ==
  /\ script = "deploy"
  /\ \E i \in DeployOps :
       issued[i].target = "Frontend" /\ issued[i].param = "arn:cert1"

\* the required configuration of the run is incomplete
ConfigIncomplete == env.domain = <<>> \/ ~env.secrets

\* C11 as stated: a deploy run whose required configuration is incomplete
\* issues no registry query, no image push and no stack operation.
C11_ConfigErrorBeforeCloudCall ==
  (script = "deploy" /\ ConfigIncomplete) => issued = <<>>

\* the run ended because the CertificateArn output read back was empty
CertArnMissing == script = "deploy" /\ pc = "exited" /\ exitAt = "certarn"

\* C12 as stated: when the CertificateArn output is missing, Frontend is not
\* deployed and the Backend deploy is still issued in that run.
C12_OnlyConsumerBlocked ==
  CertArnMissing => (~Attempted("Frontend") /\ Attempted("Backend"))

\* a step of a deploy run
DeployStep == script = "deploy" /\ script' = "deploy"

\* C13: a deploy run issues no operation other than the image push, the
\* registry query and stack deploys, a failed deploy is its last operation,
\* and no step of it takes a deployed stack out of status Deployed or
\* changes its output: the stacks the run deployed before the failure and
\* the stacks it found deployed keep their status and outputs.
C13_CompletedStacksIntact ==
  /\ [][DeployStep =>
          \A s \in Stacks : stacks[s].status = "Deployed" =>
            /\ stacks'[s].status = "Deployed"
            /\ stacks'[s].output = stacks[s].output]_vars
  /\ [](script = "deploy" =>
          /\ \A i \in DOMAIN issued :
               /\ issued[i].op \in {"push", "describe-images", "deploy"}
               /\ (issued[i].op = "deploy" /\ ~issued[i].ok) =>
                    (i = Len(issued) /\ pc = "exited")
          /\ \A i \in DeployOps : issued[i].ok =>
               /\ stacks[issued[i].target].status = "Deployed"
               /\ stacks[issued[i].target].param = issued[i].param
          /\ \A s \in Stacks : startStacks[s].status = "Deployed" =>
               /\ stacks[s].status = "Deployed"
               /\ stacks[s].output = startStacks[s].output)

C13_Witness ==
  /\ script = "deploy" /\ pc = "exited" /\ exitCode = 1
  /\ FailedDeploy("Backend")
  /\ DeployedOkBefore("Certificate", Len(issued))
  /\ stacks["Certificate"].status = "Deployed"
  /\ stacks["Certificate"].output = "arn:cert1"

\* the run found the three stacks deployed
Redeploy == script = "deploy" /\ \A s \in Stacks : startStacks[s].status = "Deployed"

\* every deploy the run issued carries the parameter the stack has
SameParameters ==
  \A i \in DeployOps : issued[i].param = startStacks[issued[i].target].param

StackSteps == {"cert", "certarn", "backend", "domain", "frontend"}

Resume ==
  /\ script = "deploy"
  /\ \E s \in Stacks : startStacks[s].status = "Deployed"
  /\ \E s \in Stacks : startStacks[s].status # "Deployed"

FrontendDestroys ==
  {i \in DOMAIN issued : issued[i].op = "destroy" /\ issued[i].target = "Frontend"}

\* C16 as stated: a destroy run issues the destroy of the Frontend stack
\* only when its bucket is not non-empty (it was drained first), and a
\* destroy issued on a non-empty bucket is rejected.
C16_DrainBeforeDestroy ==
  script = "destroy" =>
    \A i \in FrontendDestroys : issued[i].bucket # "nonempty"

\* C17 as stated: a destroy run whose Frontend destroy was rejected with
\* the bucket non-empty re-issues that destroy before it ends.
C17_RecoveryBeforeGivingUp ==
  (script = "destroy" /\ pc = "exited") =>
    \A i \in FrontendDestroys :
      (~issued[i].ok /\ issued[i].bucket = "nonempty") =>
        \E j \in FrontendDestroys : j > i

\* positions of the operations of a kind in the run
OpsOf(kind) == {i \in DOMAIN issued : issued[i].op = kind}

\* the run of force-delete-stack.sh that read DELETE_FAILED has ended
ForcedRecoveryEnded ==
  script = "forcedelete" /\ pc = "exited" /\ STACK_STATUS = "DELETE_FAILED"

\* C18 as stated: a forced recovery that observed DELETE_FAILED issues the
\* continue request, then a stack delete that it waits on if accepted, and,
\* when the stack is still not deleted after that, removes the bucket and
\* then issues the stack delete once more.
C18_ForcedRecoveryOrder ==
  ForcedRecoveryEnded =>
    \E a \in OpsOf("continue-update-rollback"), b \in OpsOf("delete-stack") :
      /\ a < b
      /\ issued[b].ok => \E w \in OpsOf("wait-delete") : b < w
      /\ stacks["Frontend"].status # "Destroyed" =>
           \E c \in OpsOf("s3-rb"), d \in OpsOf("delete-stack") : b < c /\ c < d

\* the stack or region steps of a script, in the order it runs them
StepKind(s) ==
  IF s = "deploy" THEN "deploy" ELSE IF s = "destroy" THEN "destroy" ELSE "bootstrap"

StepTargets(s) ==
  IF s = "deploy" THEN <<"Certificate", "Backend", "Frontend">>
  ELSE IF s = "destroy" THEN <<"Frontend", "Backend", "Certificate">>
  ELSE <<env.region, "us-east-1">>

\* the run issued every step of its script and each one succeeded
AllStepsSucceeded ==
  /\ Targets(issued, StepKind(script)) = StepTargets(script)
  /\ \A i \in DOMAIN issued : issued[i].ok

ReachFrontendStep == script' = "deploy" /\ pc' = "frontend" /\ pc # "frontend"

\* C21: a deploy run is at the frontend build or beyond only after its
\* Backend deploy succeeded and with a non-empty API_URL; it reaches the
\* Frontend deploy only by a build step that leaves the dist directory in
\* place, and every Frontend deploy is issued with dist present, after the
\* Backend deploy succeeded.
C21_BuildAfterBackend ==
  /\ [][ReachFrontendStep => (pc = "build" /\ distExists')]_vars
  /\ [](script = "deploy" =>
          /\ (pc \in {"build", "frontend", "done"} \/ API_URL # "") =>
               /\ DeployedOkBefore("Backend", Len(issued) + 1)
               /\ stacks["Backend"].status = "Deployed"
               /\ API_URL # ""
          /\ \A i \in DeployOps : issued[i].target = "Frontend" =>
               /\ distExists
               /\ API_URL # ""
               /\ DeployedOkBefore("Backend", i))

C21_Witness ==
  /\ script = "deploy"
  /\ API_URL = "https://api.resume.example.com"
  /\ distExists
  /\ \E i \in DeployOps : issued[i].target = "Frontend" /\ issued[i].ok

\* C22: every wait for a stack operation has a ceiling; a wait that ends
\* with the operation still running is reported as still in progress, not
\* as done or failed, and the run goes on without an error exit
StillRunningAfterWait ==
  \E i \in OpsOf("wait-delete") : issued[i].param = "DeleteInProgress"

C22_WaitReportedInProgress ==
  StillRunningAfterWait =>
    /\ reported = "in-progress"
    /\ pc = "exited" => exitCode = 0

\* C23: in the fix-bucket-policy script the forced removal of the bucket
\* (step 4) is attempted only when the stack delete that step 3 started has
\* reached a terminal state, never while it is still in progress
C23_RemovalAfterTerminalDelete ==
  \A i \in OpsOf("s3-rb-force") :
    (\E j \in OpsOf("delete-stack") : j < i /\ issued[j].ok) =>
      issued[i].param # "DeleteInProgress"

\* C24: a deploy run whose image resolution fails issues no stack deploy at
\* all, the Certificate stack included, and leaves every stack as it found
\* it: any deploy of a run follows a resolution that found a usable tag
C24_NoDeployWithoutImage ==
  script = "deploy" =>
    /\ ResolutionFailed => (DeployOps = {} /\ stacks = startStacks)
    /\ \A i \in DeployOps :
         /\ TagUsable(LATEST_TAG) /\ ECR_IMAGE_URI # <<>>
         /\ \E j \in OpsOf("describe-images") : j < i

C24_Witness ==
  /\ ResolutionFailed /\ ~TagUsable(LATEST_TAG)
  /\ OpsOf("describe-images") # {} /\ exitCode = 1
  /\ stacks["Certificate"].status = "Deployed"

\* C25: for every DOMAIN_NAME the URL deploy.sh builds for the frontend
\* build is the APIEndpoint output the Backend stack declares for it
C25_ApiUrlIsApiEndpoint ==
  /\ \A d \in RefDomains \cup Domains : ApiUrl(d) = ApiEndpoint(d)
  /\ (script = "deploy" /\ API_URL # "") => API_URL = stacks["Backend"].output

C25_Witness ==
  /\ script = "deploy" /\ pc = "build"
  /\ API_URL = "https://api.resume.sub.example.org"
  /\ stacks["Backend"].output = "https://api.resume.sub.example.org"

\* C26: for every account, region and selected tag without ':', the Backend
\* stack parses from the reference deploy.sh built the repository name
\* resume-bot/backend-lambda and exactly that tag
HasColon(tag) == \E i \in DOMAIN Split(tag) : Split(tag)[i] = ":"

C26_ImageReferenceRoundTrip ==
  /\ \A a \in RefAccounts, r \in Regions, t \in RefTags :
       (TagUsable(t) /\ ~HasColon(t)) =>
         /\ RepoName(EcrImageUri(a, r, t)) = "resume-bot/backend-lambda"
         /\ TagOrDigest(EcrImageUri(a, r, t)) = t
  /\ (script = "deploy" /\ pc \in {"domain", "build"} /\ ~HasColon(LATEST_TAG)) =>
       /\ stacks["Backend"].repo = "resume-bot/backend-lambda"
       /\ stacks["Backend"].param = LATEST_TAG

C26_Witness ==
  /\ script = "deploy" /\ pc = "domain" /\ LATEST_TAG = "a/b"
  /\ env.account = "210987654321"
  /\ stacks["Backend"].repo = "resume-bot/backend-lambda"
  /\ stacks["Backend"].param = "a/b"

\* the precondition of C26 is needed: a tag with ':' does not come back
C26_ColonTagSplit ==
  /\ script = "deploy" /\ pc = "domain" /\ LATEST_TAG = "v1:x"
  /\ stacks["Backend"].param = "x"
  /\ stacks["Backend"].repo = "resume-bot/backend-lambda:v1"

\* C27: force-delete-stack.sh exits non-zero when the stack is not found,
\* issuing no delete, and whenever delete-stack is rejected, in the
\* DELETE_FAILED branch as in the normal one; on DELETE_IN_PROGRESS it
\* issues no delete-stack and only waits
ForceEnded == script = "forcedelete" /\ pc = "exited"

RejectedDelete == \E i \in OpsOf("delete-stack") : ~issued[i].ok

C27_NotFoundExit ==
  (ForceEnded /\ STACK_STATUS = "") =>
    (exitCode # 0 /\ OpsOf("delete-stack") = {})

C27_InProgressOnlyWaits ==
  (ForceEnded /\ STACK_STATUS = "DELETE_IN_PROGRESS") =>
    (OpsOf("delete-stack") = {} /\ OpsOf("wait-delete") # {})

C27_FailedDeleteExitsNonZero ==
  /\ C27_NotFoundExit
  /\ C27_InProgressOnlyWaits
  /\ (ForceEnded /\ RejectedDelete) => exitCode # 0

C27_NotFoundReached ==
  /\ ForceEnded /\ STACK_STATUS = "" /\ exitCode = 1 /\ issued = <<>>

C27_InProgressReached ==
  /\ ForceEnded /\ STACK_STATUS = "DELETE_IN_PROGRESS"
  /\ OpsOf("delete-stack") = {} /\ OpsOf("wait-delete") # {}

\* C28: the two recovery scripts compute one bucket name from one account
\* and region configuration, a configuration without a region included, and
\* the name is that of the bucket the Frontend stack owns
C28_SameNameWithoutRegion ==
  ForceBucketName(env) = FixBucketName(env)

C28_NameOfStackBucket ==
  \A i \in OpsOf("s3-rm") \cup OpsOf("s3-rb") \cup OpsOf("s3-rb-force") :
    issued[i].target = Concat(WebsiteBucketName)

C28_RecoveryBucketName ==
  (script \in {"forcedelete", "fixbucket"} /\ pc = "exited") =>
    /\ C28_SameNameWithoutRegion
    /\ C28_NameOfStackBucket
    /\ ForceBucketName(env) = WebsiteBucketName
    /\ FixBucketName(env) = WebsiteBucketName

\* with a region configured the two scripts do agree on the name
C28_SameNameWithRegion ==
  env.cliRegion # "" => ForceBucketName(env) = FixBucketName(env)

\* C29: a stack's deploy or destroy does not depend on what only another
\* stack needs: with DOMAIN_NAME set and the Backend stack's secret values
\* absent, the Certificate deploy and the Frontend destroy, when they end
\* the run, were issued to the platform
BackendInputAbsent == env.domain # <<>> /\ ~env.secrets

C29_CertificateDeployIndependent ==
  (script = "deploy" /\ pc = "exited" /\ exitAt = "cert" /\ BackendInputAbsent)
    => Attempted("Certificate")

C29_DestroyIndependent ==
  (script = "destroy" /\ pc = "exited" /\ exitAt = "frontend" /\ BackendInputAbsent)
    => \E i \in OpsOf("destroy") : issued[i].target = "Frontend"

C29_StacksIndependent ==
  C29_CertificateDeployIndependent /\ C29_DestroyIndependent

\* C30: for every default region the Certificate stack is deployed to
\* us-east-1 and its CertificateArn is read from us-east-1, the Backend and
\* Frontend stacks are deployed to the default region, and the output read
\* is the one of the region the stack was deployed to
PlacedRegion(s) == IF s = "Certificate" THEN "us-east-1" ELSE env.region

C30_RegionsAgree ==
  /\ \A i \in DeployOps : issued[i].region = PlacedRegion(issued[i].target)
  /\ \A s \in Stacks :
       stacks[s].status = "Deployed" => stacks[s].region = PlacedRegion(s)
  /\ stacks["Certificate"].status = "Deployed" =>
       stacks["Certificate"].region = CertArnRegion
  /\ (script = "deploy" /\ CERT_ARN # "") =>
       CERT_ARN = stacks["Certificate"].output
  /\ (script = "deploy" /\ pc = "exited" /\ exitAt = "certarn") =>
       stacks["Certificate"].output = ""

C30_Witness ==
  /\ script = "deploy" /\ env.region = "ca-central-1"
  /\ CERT_ARN = "arn:cert1"
  /\ \E i \in DeployOps :
       /\ issued[i].target = "Certificate" /\ issued[i].ok
       /\ issued[i].region = "us-east-1"
  /\ \E i \in DeployOps :
       /\ issued[i].target = "Frontend" /\ issued[i].ok
       /\ issued[i].region = "ca-central-1"

====
